---- MODULE Spec2Model ----
(***************************************************************************)
(* A model of src/hpo/optuna.py: the Optuna driver that tunes the launcher *)
(* configuration (instances, openmp, allocator, huge_pages, nb_cores) of   *)
(* a benchmark.  One run of optuna_tune is modelled from its call to its   *)
(* report, every trial going through wrapper -> objective ->               *)
(* launch_and_wait -> study bookkeeping.                                   *)
(*                                                                         *)
(* Python values that are "a list or a scalar" are tagged records          *)
(* [isList, items]; dictionaries are functions from key strings.           *)
(***************************************************************************)
EXTENDS Integers, Sequences, FiniteSets, TLC

\* ------------------------------------------------------------------ bounds

\* n_trials is drawn from 1..MaxTrials
MaxTrials == 2
\* the host's physical core count is drawn from 1..MaxCores
MaxCores == 4
\* a caller-pinned scalar instance count is drawn from 1..MaxInstances
MaxInstances == 5

\* ------------------------------------------------------------- Python values

Scalar(x) == [isList |-> FALSE, items |-> <<x>>]

List(s) == [isList |-> TRUE, items |-> s]

EmptyDict == [k \in {} |-> 0]

\* d.update({key: v}) / d[key] = v
DictSet(d, key, v) == (key :> v) @@ d

\* range(1, n + 1) as an ordered list
Range1(n) == [i \in 1..n |-> i]

\* ------------------------------------------------------ external collaborators

\* TuningMode, as the data model of the specification gives it
TuningMode == {"LATENCY", "THROUGHPUT", "BOTH"}

RequiredKeys == {"mode", "exp_name", "n_trials"}

\* utils.check_tune_function_kwargs: TRUE when the kwargs are accepted
check_tune_function_kwargs(kw) == RequiredKeys \subseteq DOMAIN kw

\* utils.generate_nb_instances_candidates(batch_size, mode, cpu_info):
\* the legal instance counts, in increasing order: one instance, and every
\* count up to the physical cores that divides a candidate batch size
generate_nb_instances_candidates(batch_size, mode, cpu) ==
    SelectSeq(Range1(cpu),
              LAMBDA n : n = 1 \/ \E j \in 1..Len(batch_size.items) :
                                     batch_size.items[j] % n = 0)

\* utils.generate_nb_cores_candidates(batch_size, mode, cpu_info, nb_instances):
\* the legal per-instance core counts, in increasing order: one core, and
\* every count that lets nb_instances instances fit on the physical cores
generate_nb_cores_candidates(batch_size, mode, cpu, nb_instances) ==
    SelectSeq(Range1(cpu), LAMBDA c : c = 1 \/ c * nb_instances <= cpu)

\* A fresh optuna Trial: the parameters suggested so far and the log of the
\* calls made to suggest_categorical
NewTrial == [params |-> EmptyDict, log |-> << >>]

\* Trial.suggest_categorical(key, choices): the set of possible outcomes
\* [ret, trial].  A key already suggested in this trial gives the same value
\* again; otherwise the sampler picks any of the choices.
suggest_categorical(trial, key, choices) ==
    LET logged == Append(trial.log, [key |-> key, choices |-> choices])
    IN  IF key \in DOMAIN trial.params
        THEN {[ret |-> trial.params[key],
               trial |-> [params |-> trial.params, log |-> logged]]}
        ELSE {[ret |-> choices[i],
               trial |-> [params |-> DictSet(trial.params, key, choices[i]),
                          log |-> logged]] : i \in 1..Len(choices)}

\* The ExperimentResults launch_and_wait can return
ExperimentResults == [latency : 1..2, throughput : 1..2]

\* ------------------------------------------------ the parameter preparer

\* prepare_parameter_for_optuna(trial, key, value): the possible outcomes
\* [ret, trial]
prepare_parameter_for_optuna_always_suggests(trial, key, value) ==
    IF value.isList
    THEN suggest_categorical(trial, key, value.items)
    ELSE {[ret |-> value.items[1], trial |-> trial]}

prepare_parameter_for_optuna(trial, key, value) ==
    IF value.isList
    THEN IF Len(value.items) = 1
         THEN {[ret |-> value.items[1], trial |-> trial]}
         ELSE suggest_categorical(trial, key, value.items)
    ELSE {[ret |-> value.items[1], trial |-> trial]}

\* The dict comprehension of wrapper: every key of launcher_parameters is
\* prepared in turn, on the same trial.  The outcomes are
\* [prepared, trial]; acc is the comprehension so far.  The keys are taken
\* in a fixed order; the order only shows in the order of the trial's log.
RECURSIVE prepare_all(_, _, _)
prepare_all(acc, keys, lp) ==
    IF keys = {}
    THEN {acc}
    ELSE LET k == CHOOSE x \in keys : TRUE
         IN  UNION { prepare_all([prepared |-> DictSet(acc.prepared, k, o.ret),
                                  trial |-> o.trial],
                                 keys \ {k}, lp)
                     : o \in prepare_parameter_for_optuna(acc.trial, k, lp[k]) }

\* wrapper(trial) up to its call of optimize_fn
wrapper_prepared(trial, lp) ==
    prepare_all([prepared |-> EmptyDict, trial |-> trial], DOMAIN lp, lp)

\* ------------------------------------------------------- the objective

\* lines 62-79: the instance count when the caller did not give one
instances_step(mode, s, lp, mp, cpu) ==
    IF "instances" \notin DOMAIN lp
    THEN LET cands == generate_nb_instances_candidates(mp.batch_size, mode, cpu)
         IN  IF Len(cands) > 1
             THEN {[parameters |-> DictSet(s.parameters, "instances", o.ret),
                    trial |-> o.trial]
                   : o \in suggest_categorical(s.trial, "instances", cands)}
             ELSE {[parameters |-> DictSet(s.parameters, "instances", cands[1]),
                    trial |-> s.trial]}
    ELSE {s}

\* lines 81-92: a key the caller did not give is sampled from its choices
default_step(s, lp, key, choices) ==
    IF key \notin DOMAIN lp
    THEN {[parameters |-> DictSet(s.parameters, key, o.ret), trial |-> o.trial]
          : o \in suggest_categorical(s.trial, key, choices)}
    ELSE {s}

\* line 94: parameters.update(launcher_parameters)
update(parameters, lp) == lp @@ parameters

\* lines 96-97: no more instances than physical cores
clamp_instances_missing(parameters, cpu) == parameters

clamp_instances(parameters, cpu) ==
    IF parameters["instances"] > cpu
    THEN DictSet(parameters, "instances", cpu)
    ELSE parameters

\* lines 108-113: the batch sizes the chosen instance count divides
filter_batch_size(batch_size, instances) ==
    IF batch_size.isList /\ Len(batch_size.items) > 1
    THEN List(SelectSeq(batch_size.items, LAMBDA size : size % instances = 0))
    ELSE batch_size

\* lines 99-113: nb_cores and the batch sizes, from the merged parameters
finish_step(mode, s, mp, cpu) ==
    LET nb == s.parameters["instances"]
    IN  {[parameters |-> DictSet(s.parameters, "nb_cores", o.ret),
          trial |-> o.trial,
          nb_instances |-> nb,
          batch_size |-> filter_batch_size(mp.batch_size, nb)]
         : o \in suggest_categorical(s.trial, "nb_cores",
                     generate_nb_cores_candidates(1, mode, cpu, nb))}

\* _optimize_latency_and_throughput up to its call of launch_and_wait: the
\* possible outcomes [parameters, trial, nb_instances, batch_size]
objective_outcomes(mode, trial, lp, mp, cpu) ==
    LET s0 == [parameters |-> [instances |-> 1], trial |-> trial]
        s1 == instances_step(mode, s0, lp, mp, cpu)
        s2 == UNION {default_step(s, lp, "openmp", <<"openmp", "iomp">>) : s \in s1}
        s3 == UNION {default_step(s, lp, "allocator",
                                  <<"default", "tcmalloc", "jemalloc">>) : s \in s2}
        s4 == UNION {default_step(s, lp, "huge_pages", <<"on", "off">>) : s \in s3}
        s5 == {[parameters |-> clamp_instances(update(s.parameters, lp), cpu),
                trial |-> s.trial] : s \in s4}
    IN  UNION {finish_step(mode, s, mp, cpu) : s \in s5}

\* optimize_latency, optimize_throughput, optimize_latency_and_throughput:
\* what the objective returns of the launcher's result (a tuple of values)
optimize_latency(res) == <<res.latency>>

optimize_throughput_returns_latency(res) == <<res.latency>>

optimize_throughput(res) == <<res.throughput>>

optimize_latency_and_throughput(res) == <<res.latency, res.throughput>>

\* ---------------------------------------------------- the tables of optuna_tune

mode2directions(m) ==
    IF m = "LATENCY" THEN <<"minimize">>
    ELSE IF m = "THROUGHPUT" THEN <<"maximize">>
    ELSE <<"minimize", "maximize">>

mode2sampler(m) == IF m = "BOTH" THEN "NSGAIISampler" ELSE "TPESampler"

mode2create_study(m) ==
    IF m = "BOTH" THEN "optuna.multi_objective.create_study" ELSE "create_study"

mode2objective(m, res) ==
    IF m = "LATENCY" THEN optimize_latency(res)
    ELSE IF m = "THROUGHPUT" THEN optimize_throughput(res)
    ELSE optimize_latency_and_throughput(res)

\* --------------------------------------------------------------- the state

VARIABLES
    kwargs,                 \* the keyword arguments of the call to optuna_tune
    launcher_parameters,    \* the caller's launcher_parameters
    main_parameters,        \* the caller's main_parameters dict (one object for the run)
    supplied_batch_size,    \* the batch_size the caller supplied (never written)
    physical_core_nums,     \* CPUinfo().physical_core_nums
    pc,                     \* where optuna_tune is
    error,                  \* the exception that ended the call, or "none"
    mode, exp_name, n_trials,   \* the locals read from kwargs
    study,                  \* the study: its kind, sampler, directions, trials, distributions
    trial,                  \* the current trial
    prepared_launcher_parameters,   \* what wrapper hands to the objective
    parameters,             \* the objective's assembled configuration
    nb_instances_arg,       \* the nb_instances given to generate_nb_cores_candidates
    experiment_result,      \* what launch_and_wait returned
    objective_value,        \* what the objective returned to the optimizer
    launches,               \* calls of launch_and_wait so far
    outputs                 \* the files written under outputs/

vars == <<kwargs, launcher_parameters, main_parameters, supplied_batch_size,
          physical_core_nums, pc, error, mode, exp_name, n_trials, study, trial,
          prepared_launcher_parameters, parameters, nb_instances_arg,
          experiment_result, objective_value, launches, outputs>>

\* The keys a launcher configuration can hold in this model
AllKeys == {"instances", "openmp", "allocator", "huge_pages", "nb_cores",
            "kmp_blocktime"}

\* The calls optuna_tune receives
KwargsInputs ==
    { [k \in present |-> full[k]] :
        present \in SUBSET RequiredKeys,
        full \in [mode : TuningMode, exp_name : {"exp"}, n_trials : 1..MaxTrials] }

LauncherInputs ==
    {EmptyDict}
    \cup {[instances |-> Scalar(i)] : i \in 1..MaxInstances}
    \cup {[allocator |-> Scalar("jemalloc")],
          [nb_cores |-> Scalar(2)],
          [instances |-> List(<<2, 3>>)],
          [openmp |-> List(<<"iomp">>), huge_pages |-> List(<<"on", "off">>)],
          [nb_cores |-> List(<<1, 2>>), kmp_blocktime |-> Scalar(1)]}

BatchSizeInputs == {Scalar(8), List(<<16, 17, 32>>), List(<<4, 9>>)}

NoStudy == [kind |-> "none", sampler |-> "none", directions |-> << >>,
            trials |-> 0, distributions |-> [k \in AllKeys |-> {}]]

NoResult == [latency |-> 0, throughput |-> 0]

Init ==
    /\ kwargs \in KwargsInputs
    /\ launcher_parameters \in LauncherInputs
    /\ supplied_batch_size \in BatchSizeInputs
    /\ main_parameters = [batch_size |-> supplied_batch_size]
    /\ physical_core_nums \in 1..MaxCores
    /\ pc = "start"
    /\ error = "none"
    /\ mode = "None"
    /\ exp_name = "None"
    /\ n_trials = 0
    /\ study = NoStudy
    /\ trial = NewTrial
    /\ prepared_launcher_parameters = EmptyDict
    /\ parameters = EmptyDict
    /\ nb_instances_arg = 0
    /\ experiment_result = NoResult
    /\ objective_value = << >>
    /\ launches = 0
    /\ outputs = {}

\* ------------------------------------------------------------- optuna_tune

\* lines 157-162: the kwargs are checked, then mode, exp_name and n_trials
\* are read from them (a missing key is a KeyError)
entry_accepts_anything(kw) == TRUE

entry_accepts(kw) ==
    /\ check_tune_function_kwargs(kw)
    /\ {"mode", "exp_name", "n_trials"} \subseteq DOMAIN kw

\* kw[key]; none stands for a local that was never bound
kwarg(kw, key, none) == IF key \in DOMAIN kw THEN kw[key] ELSE none

optuna_tune_entry ==
    /\ pc = "start"
    /\ IF entry_accepts(kwargs)
       THEN /\ mode' = kwarg(kwargs, "mode", "None")
            /\ exp_name' = kwarg(kwargs, "exp_name", "None")
            /\ n_trials' = kwarg(kwargs, "n_trials", 0)
            /\ pc' = "create_study"
            /\ error' = error
       ELSE /\ pc' = "rejected"
            /\ error' = IF check_tune_function_kwargs(kwargs)
                        THEN "KeyError" ELSE "kwargs rejected"
            /\ UNCHANGED <<mode, exp_name, n_trials>>
    /\ UNCHANGED <<kwargs, launcher_parameters, main_parameters,
                   supplied_batch_size, physical_core_nums, study, trial,
                   prepared_launcher_parameters, parameters, nb_instances_arg,
                   experiment_result, objective_value, launches, outputs>>

\* lines 164-197: the study is created for the mode, the objective is bound
create_study ==
    /\ pc = "create_study"
    /\ study' = [kind |-> mode2create_study(mode),
                 sampler |-> mode2sampler(mode),
                 directions |-> mode2directions(mode),
                 trials |-> 0,
                 distributions |-> [k \in AllKeys |-> {}]]
    /\ pc' = "optimize"
    /\ UNCHANGED <<kwargs, launcher_parameters, main_parameters,
                   supplied_batch_size, physical_core_nums, error, mode, exp_name,
                   n_trials, trial, prepared_launcher_parameters, parameters,
                   nb_instances_arg, experiment_result, objective_value, launches,
                   outputs>>

\* line 199: study.optimize(objective, n_trials=n_trials) starts another
\* trial while fewer than n_trials have been run
optimize_continues_once_more(done, n) == done <= n

optimize_continues(done, n) == done < n

\* lines 33-37: the optimizer calls wrapper with a fresh trial; wrapper
\* prepares the launcher parameters
wrapper ==
    /\ pc = "optimize"
    /\ optimize_continues(study.trials, n_trials)
    /\ \E o \in wrapper_prepared(NewTrial, launcher_parameters) :
          /\ prepared_launcher_parameters' = o.prepared
          /\ trial' = o.trial
    /\ pc' = "objective"
    /\ UNCHANGED <<kwargs, launcher_parameters, main_parameters,
                   supplied_batch_size, physical_core_nums, error, mode, exp_name,
                   n_trials, study, parameters, nb_instances_arg,
                   experiment_result, objective_value, launches, outputs>>

\* lines 47-113: the objective assembles the configuration and writes the
\* filtered batch sizes into main_parameters
objective ==
    /\ pc = "objective"
    /\ \E o \in objective_outcomes(mode, trial, prepared_launcher_parameters,
                                   main_parameters, physical_core_nums) :
          /\ parameters' = o.parameters
          /\ trial' = o.trial
          /\ nb_instances_arg' = o.nb_instances
          /\ main_parameters' = [main_parameters EXCEPT !.batch_size = o.batch_size]
    /\ pc' = "launch"
    /\ UNCHANGED <<kwargs, launcher_parameters, supplied_batch_size,
                   physical_core_nums, error, mode, exp_name, n_trials, study,
                   prepared_launcher_parameters, experiment_result,
                   objective_value, launches, outputs>>

\* lines 118-153: launch_and_wait returns a result and the objective of the
\* mode returns its value
launch_and_wait ==
    /\ pc = "launch"
    /\ \E res \in ExperimentResults :
          /\ experiment_result' = res
          /\ objective_value' = mode2objective(mode, res)
    /\ launches' = launches + 1
    /\ pc' = "returned"
    /\ UNCHANGED <<kwargs, launcher_parameters, main_parameters,
                   supplied_batch_size, physical_core_nums, error, mode, exp_name,
                   n_trials, study, trial, prepared_launcher_parameters,
                   parameters, nb_instances_arg, outputs>>

\* The candidate lists the trial passed with key
suggested(log, key) == {log[i].choices : i \in {j \in 1..Len(log) : log[j].key = key}}

\* line 199: the optimizer records the finished trial in the study (its
\* value spaces included); the trial's locals are gone
trial_recorded ==
    /\ pc = "returned"
    /\ study' = [study EXCEPT
                   !.trials = @ + 1,
                   !.distributions = [k \in AllKeys |-> @[k] \cup suggested(trial.log, k)]]
    /\ trial' = NewTrial
    /\ prepared_launcher_parameters' = EmptyDict
    /\ parameters' = EmptyDict
    /\ nb_instances_arg' = 0
    /\ experiment_result' = NoResult
    /\ objective_value' = << >>
    /\ pc' = "optimize"
    /\ UNCHANGED <<kwargs, launcher_parameters, main_parameters,
                   supplied_batch_size, physical_core_nums, error, mode, exp_name,
                   n_trials, launches, outputs>>

\* os.path.join("outputs", exp_name + suffix)
output_path(name, suffix) == <<"outputs", name, suffix>>

\* lines 201-205: the study is dumped once study.optimize has returned
persist_study ==
    /\ pc = "optimize"
    /\ ~optimize_continues(study.trials, n_trials)
    /\ outputs' = outputs \cup {output_path(exp_name, "_study.pkl")}
    /\ pc' = "report"
    /\ UNCHANGED <<kwargs, launcher_parameters, main_parameters,
                   supplied_batch_size, physical_core_nums, error, mode, exp_name,
                   n_trials, study, trial, prepared_launcher_parameters,
                   parameters, nb_instances_arg, experiment_result,
                   objective_value, launches>>

\* lines 207-262: the report.  The branch is chosen by
\* `mode is TuningMode.LATENCY_AND_THROUGHPUT`; looking up a name the
\* enumeration does not have is an AttributeError.
report ==
    /\ pc = "report"
    /\ IF "LATENCY_AND_THROUGHPUT" \notin TuningMode
       THEN /\ error' = "AttributeError"
            /\ pc' = "failed"
            /\ outputs' = outputs
       ELSE /\ error' = error
            /\ pc' = "done"
            /\ IF mode = "LATENCY_AND_THROUGHPUT"
               THEN outputs' = outputs \cup
                        {output_path(exp_name, "_importances.csv"),
                         output_path(exp_name, "_pareto_front.png")}
               ELSE outputs' = outputs \cup
                        {output_path(exp_name, "_importances_and_values.csv")}
    /\ UNCHANGED <<kwargs, launcher_parameters, main_parameters,
                   supplied_batch_size, physical_core_nums, mode, exp_name,
                   n_trials, study, trial, prepared_launcher_parameters,
                   parameters, nb_instances_arg, experiment_result,
                   objective_value, launches>>

Next ==
    \/ optuna_tune_entry
    \/ create_study
    \/ wrapper
    \/ objective
    \/ launch_and_wait
    \/ trial_recorded
    \/ persist_study
    \/ report

Spec == Init /\ [][Next]_vars

\* ------------------------------------------------------------ the claims

\* The configuration and main_parameters of this state are the ones handed to
\* launch_and_wait
AtLaunch == pc \in {"launch", "returned"}

\* optuna_tune has ended, by returning or by an exception after the trials
Ended == pc \in {"done", "failed"}

StudyPersisted == output_path(exp_name, "_study.pkl") \in outputs

IsCandidateList(v) == v.isList /\ Len(v.items) > 1

\* C1: every key of the launcher_parameters handed to the objective keeps
\* exactly that value in the configuration passed to launch_and_wait.
C1_OverrideInvariant ==
    AtLaunch =>
        \A k \in DOMAIN prepared_launcher_parameters :
            parameters[k] = prepared_launcher_parameters[k]

\* C2: the instance count passed to launch_and_wait never exceeds the
\* physical core count, and the nb_cores candidates were generated for that
\* same (possibly clamped) instance count.
C2_InstancesClamped ==
    AtLaunch =>
        /\ parameters["instances"] <= physical_core_nums
        /\ nb_instances_arg = parameters["instances"]
        /\ LET last == trial.log[Len(trial.log)]
           IN  /\ last.key = "nb_cores"
               /\ last.choices = generate_nb_cores_candidates(
                      1, mode, physical_core_nums, parameters["instances"])

\* C2 witness: a caller-pinned instance count above the core count was
\* clamped before the launch.
C2_Witness ==
    /\ pc = "launch"
    /\ "instances" \in DOMAIN prepared_launcher_parameters
    /\ prepared_launcher_parameters["instances"] > physical_core_nums
    /\ parameters["instances"] = physical_core_nums

\* C3: when the caller gives several batch sizes, every batch size passed to
\* launch_and_wait is divisible by the instance count of that trial.
C3_BatchSizesDivisible ==
    (AtLaunch /\ IsCandidateList(supplied_batch_size)) =>
        \A i \in 1..Len(main_parameters.batch_size.items) :
            main_parameters.batch_size.items[i] % parameters["instances"] = 0

\* C4: the value returned to the optimizer is the latency under LATENCY, the
\* throughput under THROUGHPUT and the pair (latency, throughput) under BOTH,
\* in the order of the study's directions.
C4_ObjectiveValue ==
    pc = "returned" =>
        /\ mode = "LATENCY" =>
              /\ objective_value = <<experiment_result.latency>>
              /\ study.directions = <<"minimize">>
        /\ mode = "THROUGHPUT" =>
              /\ objective_value = <<experiment_result.throughput>>
              /\ study.directions = <<"maximize">>
        /\ mode = "BOTH" =>
              /\ objective_value = <<experiment_result.latency,
                                     experiment_result.throughput>>
              /\ study.directions = <<"minimize", "maximize">>

\* C4 witness: a THROUGHPUT trial returned, its latency and throughput differ.
C4_Witness ==
    /\ pc = "returned"
    /\ mode = "THROUGHPUT"
    /\ experiment_result.latency # experiment_result.throughput

C6_MissingKeywordRejected ==
    ~(RequiredKeys \subseteq DOMAIN kwargs) =>
        /\ pc \in {"start", "rejected"}
        /\ pc = "rejected" => error = "kwargs rejected"
        /\ study = NoStudy
        /\ launches = 0
        /\ outputs = {}

\* C6 witness: a call without n_trials was rejected.
C6_Witness ==
    /\ pc = "rejected"
    /\ "n_trials" \notin DOMAIN kwargs
    /\ "mode" \in DOMAIN kwargs

\* C7: a run under BOTH ends having written the per-objective importances
\* and the Pareto front; a run under LATENCY or THROUGHPUT ends having
\* written the importances-and-values table.
C7_ReportPath ==
    (Ended /\ StudyPersisted) =>
        /\ mode = "BOTH" =>
              /\ output_path(exp_name, "_importances.csv") \in outputs
              /\ output_path(exp_name, "_pareto_front.png") \in outputs
        /\ mode \in {"LATENCY", "THROUGHPUT"} =>
              output_path(exp_name, "_importances_and_values.csv") \in outputs

\* The calls wrapper made to suggest_categorical with key
prepare_calls(key) == {j \in 1..Len(trial.log) : trial.log[j].key = key}

\* C8: preparing a parameter returns the sole element of a one-element list
\* without sampling, samples a longer list exactly once with that key and
\* list, and returns a scalar unchanged without sampling.
C8_ParameterPreparer ==
    pc = "objective" =>
        \A k \in DOMAIN launcher_parameters :
            LET v == launcher_parameters[k]
                ret == prepared_launcher_parameters[k]
            IN  /\ (v.isList /\ Len(v.items) = 1) =>
                       ret = v.items[1] /\ prepare_calls(k) = {}
                /\ IsCandidateList(v) =>
                       /\ Cardinality(prepare_calls(k)) = 1
                       /\ \A j \in prepare_calls(k) : trial.log[j].choices = v.items
                       /\ \E i \in 1..Len(v.items) : ret = v.items[i]
                /\ ~v.isList =>
                       ret = v.items[1] /\ prepare_calls(k) = {}

\* C8 witness: wrapper prepared a one-element list and a longer list.
C8_Witness ==
    /\ pc = "objective"
    /\ \E k \in DOMAIN launcher_parameters :
          launcher_parameters[k].isList /\ Len(launcher_parameters[k].items) = 1
    /\ \E k \in DOMAIN launcher_parameters : IsCandidateList(launcher_parameters[k])

\* C9: at the start of every trial main_parameters holds the batch_size the
\* caller supplied.
C9_MainParametersUnchanged ==
    (pc = "objective" \/ (pc = "optimize" /\ study.trials < n_trials)) =>
        main_parameters.batch_size = supplied_batch_size

\* C10: every key is passed to suggest_categorical with one and the same
\* candidate list throughout the study.
C10_StaticValueSpace ==
    \A k \in AllKeys :
        Cardinality(study.distributions[k] \cup suggested(trial.log, k)) <= 1

====
